---- MODULE Spec2Model ----
(***************************************************************************)
(* A model of kstonekuan/voice-agent-trial's dictation core:                *)
(*   - the push-to-talk DictationController and the stream-ready watcher    *)
(*     (voice_dictation.py, services/dictation_service.py),                 *)
(*   - the command-line dictation pipeline  STT -> LLMCleanupProcessor ->   *)
(*     TextInserterProcessor  (services/dictation_service.py),              *)
(*   - the TranscriptionBufferProcessor of the WebSocket server             *)
(*     (processors/transcription_buffer.py, dictation_server.py),           *)
(*   - the rule-based AutoFormatterProcessor (processors/auto_formatter.py),*)
(*   - the TalkingAnimation processor of the voice agent (voice_agent.py).  *)
(*                                                                          *)
(* Texts are sequences of one-character strings, so that strip(), the       *)
(* regular expressions and upper() are computed character by character.     *)
(*                                                                          *)
(* Spec        the command-line program at work: controller, watcher,       *)
(*             pipeline.  Every handler (on_press, on_release, one watcher  *)
(*             poll, one process_frame) is one atomic step: the events      *)
(*             arrive as a sequence.                                        *)
(* SpecLifecycle  the controller and what surrounds it, from start to       *)
(*             shutdown: the listener thread, the watcher, the transport, a *)
(*             capture device that may disappear, stop_listening.  The text *)
(*             frames are left out.  SpecLifecycleLive adds the scheduling  *)
(*             of the asyncio tasks as fairness.                            *)
(* SpecController  the controller as an object, its methods in any order.  *)
(* SpecThreads the listener thread and the watcher task running the         *)
(*             controller's methods statement by statement, interleaved.    *)
(* SpecCleanup the LLMCleanupProcessor given a CerebrasLLMService.          *)
(* SpecSink    the TextInserterProcessor, its process_frame one statement   *)
(*             at a time, the typing on a worker thread.                    *)
(* SpecServer  the frames reaching the server's TranscriptionBufferProcessor*)
(* SpecAnimation  the frames reaching the voice agent's TalkingAnimation.  *)
(* SpecRules   one scripted session: its fragments, the stop-recording      *)
(*             message, then the rule-based cleanup applied twice.          *)
(***************************************************************************)
EXTENDS Integers, Sequences, FiniteSets, TLC

VARIABLES
    \* ---- DictationController (voice_dictation.py) ----
    is_recording,    \* self.is_recording
    stream_ready,    \* self._stream_ready
    in_stream,       \* transport._input._in_stream: "none" | "active" | "stopped" | "dead"
    calls,           \* log of the calls made on the stream: [op, at]; at = index in events
    events,          \* log of the hotkey events and of mark_stream_ready (see Event)
    nkeys,           \* number of key events delivered so far
    listener,        \* self.listener's thread: "running" | "stopping" | "stopped";
                     \* in SpecThreads also its position inside a callback
    \* ---- _wait_for_stream_and_pause (services/dictation_service.py) ----
    watcher,         \* "polling" | "returned" | "timed_out" | "failed";
                     \* in SpecThreads also its position inside mark_stream_ready
    elapsed,         \* number of sleeps of the watcher so far
    \* ---- command-line pipeline (create_dictation_pipeline) ----
    sttOut,          \* TranscriptionFrames from the STT service, not yet cleaned
    toInserter,      \* TextFrames pushed by LLMCleanupProcessor, not yet inserted
    inserted,        \* the texts handed to the keystroke sink (_insert_text)
    nfrags,          \* number of TranscriptionFrames produced so far
    \* ---- TranscriptionBufferProcessor (processors/transcription_buffer.py) ----
    buffer,          \* self._buffer
    last_user_id,    \* self._last_user_id
    last_language,   \* self._last_language
    pushed,          \* the frames the processor pushed, in order
    window,          \* the TranscriptionFrames received since the last stop-recording
    flushes,         \* log of the stop-recording messages handled (see BufferStopRecording)
    nframes,         \* number of frames delivered to the processor so far
    others_in,       \* the frames delivered that are neither fragments nor stop-recording
    \* ---- AutoFormatterProcessor (processors/auto_formatter.py) ----
    script,          \* the fragment texts still to be delivered (SpecRules)
    formatted,       \* the texts of the frames pushed by successive AutoFormatterProcessors
    filler_order,    \* the order in which FILLER_WORDS is iterated
    \* ---- TextInserterProcessor, step by step (processors/text_inserter.py) ----
    sink_in,         \* the frames queued for the processor, each with its arrival number
    sink_cur,        \* the frame process_frame is busy with and where it stands, or <<>>
    sink_log,        \* log of the typings and of the push_frame calls (see SinkType)
    sink_n,          \* number of frames that have arrived so far
    \* ---- TalkingAnimation (voice_agent.py) ----
    is_talking,      \* self._is_talking
    anim_log,        \* log of the frames pushed, each with the arrival that caused it
    anim_in          \* the frames that have arrived so far, with their directions

ctlVars == <<is_recording, stream_ready, in_stream, calls, events, nkeys, listener>>
watchVars == <<watcher, elapsed>>
cliVars == <<sttOut, toInserter, inserted, nfrags>>
bufVars == <<buffer, last_user_id, last_language, pushed, window, flushes, nframes, others_in>>
fmtVars == <<script, formatted, filler_order>>
sinkVars == <<sink_in, sink_cur, sink_log, sink_n>>
animVars == <<is_talking, anim_log, anim_in>>
vars == <<ctlVars, watchVars, cliVars, bufVars, fmtVars, sinkVars, animVars>>

----------------------------------------------------------------------------
(* Bounds of the model. *)

\* Key events (press or release of any key) delivered in one run.
MaxKeys == 3
\* Polls the watcher makes before it times out (timeout / interval in the code).
TimeoutPolls == 2
\* TranscriptionFrames the STT service produces in one run.
MaxFrags == 2
\* Frames delivered to the TranscriptionBufferProcessor in one run.
MaxFrames == 4
\* Fragments of one scripted session (SpecRules); below MaxFrames, so that
\* the stop-recording message still fits.
MaxPieces == 3
\* AutoFormatterProcessors a text passes through in turn (SpecRules).
MaxPasses == 2
\* Calls of mark_stream_ready made on one controller (SpecController).
MaxReady == 2
\* Frames reaching the TextInserterProcessor in one run (SpecSink).
MaxSinkFrames == 3
\* Frames reaching the TalkingAnimation processor in one run (SpecAnimation).
MaxAnimFrames == 4

----------------------------------------------------------------------------
(* Texts: sequences of one-character strings. *)

\* Characters str.strip() removes and the regular expressions' \s matches.
SpaceChars == {" ", "\t", "\n"}

IsSpace(c) == c \in SpaceChars

RECURSIVE lstrip(_)
lstrip(s) ==
    IF s = <<>> THEN <<>>
    ELSE IF IsSpace(Head(s)) THEN lstrip(Tail(s)) ELSE s

RECURSIVE rstrip(_)
rstrip(s) ==
    IF s = <<>> THEN <<>>
    ELSE IF IsSpace(s[Len(s)]) THEN rstrip(SubSeq(s, 1, Len(s) - 1)) ELSE s

\* str.strip()
strip(s) == rstrip(lstrip(s))

\* Python's truth value of "text and text.strip()".
NonBlank(s) == s # <<>> /\ strip(s) # <<>>

----------------------------------------------------------------------------
(* Keys. *)

\* DictationController.__init__: hotkey_map.get(hotkey_name, Key.ctrl_r), default "ctrl_r".
hotkey == "ctrl_r"
Keys == {"ctrl_r", "alt_r"}

----------------------------------------------------------------------------
(* DictationController *)

\* Mutant of get_audio_stream: the stream is handed out before it is ready.
StreamBeforeReady(ready, stream) == stream

\* _get_audio_stream: None while _stream_ready is false (or no stream exists),
\* else transport._input._in_stream.
get_audio_stream(ready, stream) ==
    IF ~ready THEN "none" ELSE stream

\* Mutant of start_stream_called: the is_active() test inverted.
StartIfActive(ready, stream) ==
    (IF ~ready THEN "none" ELSE stream) = "active"

\* _start_stream: whether stream.start_stream() is called:
\* "if stream and not stream.is_active()".
start_stream_called(ready, stream) ==
    get_audio_stream(ready, stream) = "stopped"

\* Mutant of pause_stream_called: the stream is used whether ready or not.
PauseUnready(ready, stream) == stream = "active"

\* Mutant of pause_stream_called: the is_active() test inverted.
PauseIfStopped(ready, stream) ==
    get_audio_stream(ready, stream) = "stopped"

\* Mutant of pause_stream_called: stop_stream() without the is_active() test.
PauseAlways(ready, stream) ==
    get_audio_stream(ready, stream) # "none"

\* _pause_stream: whether stream.stop_stream() is called:
\* "if stream and stream.is_active()".
pause_stream_called(ready, stream) ==
    get_audio_stream(ready, stream) = "active"

\* The stream and the call log after _start_stream() run by event number at.
start_stream(ready, stream, log, at) ==
    IF start_stream_called(ready, stream)
    THEN [stream |-> "active", calls |-> Append(log, [op |-> "start_stream", at |-> at])]
    ELSE [stream |-> stream, calls |-> log]

\* The stream and the call log after _pause_stream() run by event number at.
pause_stream(ready, stream, log, at) ==
    IF pause_stream_called(ready, stream)
    THEN [stream |-> "stopped", calls |-> Append(log, [op |-> "stop_stream", at |-> at])]
    ELSE [stream |-> stream, calls |-> log]

\* _start_stream / _pause_stream on a stream whose device has disappeared:
\* stream.is_active() (or the start or stop that follows) raises, and
\* neither method has a try.
stream_raises(ready, stream) ==
    get_audio_stream(ready, stream) = "dead"

\* An entry of the event log: the handler, whether its guard passed,
\* is_recording and the stream as the handler left them, and whether an
\* exception left the handler.
Event(ev, eff, rec, stream, raised) ==
    [ev |-> ev, eff |-> eff, rec |-> rec, stream |-> stream, raised |-> raised]

\* stop_listening() has run: main is in its finally clause, after
\* asyncio.run(...) ended.
ShutDown == \E k \in DOMAIN events : events[k].ev = "shutdown"

\* Mutant of press_accepted: a press is taken while recording too.
PressAlways(key, rec) == key = hotkey

\* Mutant of press_accepted: a press of any key is taken.
PressAnyKey(key, rec) == ~rec

\* on_press: "if key == self.hotkey and not self.is_recording"
press_accepted(key, rec) == key = hotkey /\ ~rec

\* on_release: "if key == self.hotkey and self.is_recording"
release_accepted(key, rec) == key = hotkey /\ rec

\* on_press(key), called by the listener thread.  An exception leaving the
\* callback ends the listener thread.  The events of the hotkey, and those
\* the handler acts on, are logged.
on_press(key) ==
    /\ nkeys < MaxKeys
    /\ listener # "stopped"
    /\ nkeys' = nkeys + 1
    /\ IF key = hotkey \/ press_accepted(key, is_recording)
       THEN LET eff == press_accepted(key, is_recording)
                raises == eff /\ stream_raises(stream_ready, in_stream)
                r == start_stream(stream_ready, in_stream, calls, Len(events) + 1)
            IN  /\ IF eff
                   THEN /\ is_recording' = TRUE
                        /\ in_stream' = r.stream
                        /\ calls' = r.calls
                   ELSE UNCHANGED <<is_recording, in_stream, calls>>
                /\ listener' = IF raises THEN "stopped" ELSE listener
                /\ events' = Append(events,
                       Event("press", eff, is_recording', in_stream', raises))
       ELSE UNCHANGED <<is_recording, in_stream, calls, events, listener>>
    /\ UNCHANGED <<stream_ready, watchVars, cliVars, bufVars, fmtVars, sinkVars, animVars>>

\* on_release(key), called by the listener thread.
on_release(key) ==
    /\ nkeys < MaxKeys
    /\ listener # "stopped"
    /\ nkeys' = nkeys + 1
    /\ IF key = hotkey \/ release_accepted(key, is_recording)
       THEN LET eff == release_accepted(key, is_recording)
                raises == eff /\ stream_raises(stream_ready, in_stream)
                r == pause_stream(stream_ready, in_stream, calls, Len(events) + 1)
            IN  /\ IF eff
                   THEN /\ is_recording' = FALSE
                        /\ in_stream' = r.stream
                        /\ calls' = r.calls
                   ELSE UNCHANGED <<is_recording, in_stream, calls>>
                /\ listener' = IF raises THEN "stopped" ELSE listener
                /\ events' = Append(events,
                       Event("release", eff, is_recording', in_stream', raises))
       ELSE UNCHANGED <<is_recording, in_stream, calls, events, listener>>
    /\ UNCHANGED <<stream_ready, watchVars, cliVars, bufVars, fmtVars, sinkVars, animVars>>

\* mark_stream_ready(): _stream_ready = True, then _pause_stream().
mark_stream_ready ==
    LET r == pause_stream(TRUE, in_stream, calls, Len(events) + 1)
    IN  /\ stream_ready' = TRUE
        /\ in_stream' = r.stream
        /\ calls' = r.calls
        /\ UNCHANGED <<is_recording, nkeys, listener>>
        /\ events' = Append(events,
               Event("ready", TRUE, is_recording', in_stream', stream_raises(TRUE, in_stream)))

\* mark_stream_ready() called on the controller directly, by any caller and
\* any number of times.
MarkStreamReadyCall ==
    /\ Cardinality({k \in DOMAIN events : events[k].ev = "ready"}) < MaxReady
    /\ mark_stream_ready
    /\ UNCHANGED <<watchVars, cliVars, bufVars, fmtVars, sinkVars, animVars>>

\* stop_listening(), called by main in its finally clause:
\* "if self.listener: self.listener.stop()".  stop() asks the listener thread
\* to end and returns; it is not followed by a join().
stop_listening ==
    /\ ~ShutDown
    /\ listener' = IF listener = "running" THEN "stopping" ELSE listener
    /\ events' = Append(events, Event("shutdown", TRUE, is_recording, in_stream, FALSE))
    /\ UNCHANGED <<is_recording, stream_ready, in_stream, calls, nkeys,
                   watchVars, cliVars, bufVars, fmtVars, sinkVars, animVars>>

\* The listener thread, asked to stop, ends.
ListenerExit ==
    /\ listener = "stopping"
    /\ listener' = "stopped"
    /\ UNCHANGED <<is_recording, stream_ready, in_stream, calls, events, nkeys,
                   watchVars, cliVars, bufVars, fmtVars, sinkVars, animVars>>

\* The thread a handler runs on: the key callbacks on the thread of
\* keyboard.Listener, mark_stream_ready in the watcher task of the asyncio
\* loop, stop_listening in main.
Context(ev) ==
    IF ev \in {"press", "release"} THEN "listener"
    ELSE IF ev = "ready" THEN "pipeline" ELSE "main"

----------------------------------------------------------------------------
(* The audio transport and the stream-ready watcher *)

\* The pipeline runner starts the transport, which opens and starts the
\* capture stream ("this will initialize the audio stream").
TransportStart ==
    /\ ~ShutDown
    /\ in_stream = "none"
    /\ in_stream' = "active"
    /\ UNCHANGED <<is_recording, stream_ready, calls, events, nkeys, listener,
                   watchVars, cliVars, bufVars, fmtVars, sinkVars, animVars>>

\* The capture device disappears while the program runs.
StreamDies ==
    /\ in_stream \in {"active", "stopped"}
    /\ in_stream' = "dead"
    /\ UNCHANGED <<is_recording, stream_ready, calls, events, nkeys, listener,
                   watchVars, cliVars, bufVars, fmtVars, sinkVars, animVars>>

\* Mutant of after_mark_stream_ready: the loop goes on after the call.
KeepPolling(raised) == "polling"

\* Where the watcher stands once it has called mark_stream_ready: the call
\* is followed by "return"; an exception leaving it ends the task as well.
after_mark_stream_ready(raised) == IF raised THEN "failed" ELSE "returned"

\* One iteration of the loop of _wait_for_stream_and_pause, or its exit
\* (the task is cancelled when asyncio.run ends).  An exception leaving
\* mark_stream_ready ends the task.
WatcherPoll ==
    /\ ~ShutDown
    /\ watcher = "polling"
    /\ IF elapsed < TimeoutPolls
       THEN IF in_stream # "none"
            THEN /\ mark_stream_ready
                 /\ watcher' = after_mark_stream_ready(stream_raises(TRUE, in_stream))
                 /\ UNCHANGED elapsed
            ELSE /\ elapsed' = elapsed + 1
                 /\ UNCHANGED <<watcher, ctlVars>>
       ELSE /\ watcher' = "timed_out"
            /\ UNCHANGED <<elapsed, ctlVars>>
    /\ UNCHANGED <<cliVars, bufVars, fmtVars, sinkVars, animVars>>

----------------------------------------------------------------------------
(* The two threads, statement by statement.  The listener thread runs      *)
(* on_press and on_release one after the other; the asyncio loop runs      *)
(* mark_stream_ready; nothing orders the statements of the one against     *)
(* those of the other.  listener and watcher hold the positions:           *)
(*   "press_get" / "release_get"    is_recording is set, _get_audio_stream  *)
(*                                  comes next                              *)
(*   "press_test" / "release_test"  the stream is fetched, is_active() next *)
(*   "press_call" / "release_call"  start_stream() / stop_stream() next     *)
(*   "mark_test", "mark_call"       the same inside mark_stream_ready       *)

\* The number of the last event logged by one of the handlers evs.
LastOf(evs) ==
    LET own == {k \in DOMAIN events : events[k].ev \in evs}
    IN  IF own = {} THEN 0 ELSE CHOOSE k \in own : \A m \in own : m <= k

\* on_press(key), up to "self.is_recording = True".
ThreadPress(key) ==
    /\ nkeys < MaxKeys
    /\ listener = "running"
    /\ nkeys' = nkeys + 1
    /\ IF key = hotkey \/ press_accepted(key, is_recording)
       THEN LET eff == press_accepted(key, is_recording)
            IN  /\ is_recording' = (IF eff THEN TRUE ELSE is_recording)
                /\ listener' = IF eff THEN "press_get" ELSE listener
                /\ events' = Append(events,
                       Event("press", eff, is_recording', in_stream, FALSE))
       ELSE UNCHANGED <<is_recording, listener, events>>
    /\ UNCHANGED <<stream_ready, in_stream, calls, watchVars, cliVars, bufVars, fmtVars, sinkVars, animVars>>

\* on_release(key), up to "self.is_recording = False".
ThreadRelease(key) ==
    /\ nkeys < MaxKeys
    /\ listener = "running"
    /\ nkeys' = nkeys + 1
    /\ IF key = hotkey \/ release_accepted(key, is_recording)
       THEN LET eff == release_accepted(key, is_recording)
            IN  /\ is_recording' = (IF eff THEN FALSE ELSE is_recording)
                /\ listener' = IF eff THEN "release_get" ELSE listener
                /\ events' = Append(events,
                       Event("release", eff, is_recording', in_stream, FALSE))
       ELSE UNCHANGED <<is_recording, listener, events>>
    /\ UNCHANGED <<stream_ready, in_stream, calls, watchVars, cliVars, bufVars, fmtVars, sinkVars, animVars>>

\* The next statement of _start_stream or _pause_stream on the listener
\* thread: _get_audio_stream(), the is_active() test, the call.
ListenerStep ==
    /\ listener \in {"press_get", "press_test", "press_call",
                      "release_get", "release_test", "release_call"}
    /\ LET at == LastOf({"press", "release"})
       IN  CASE listener = "press_get" ->
                  /\ listener' = IF get_audio_stream(stream_ready, in_stream) = "none"
                                 THEN "running" ELSE "press_test"
                  /\ UNCHANGED <<in_stream, calls>>
             [] listener = "release_get" ->
                  /\ listener' = IF get_audio_stream(stream_ready, in_stream) = "none"
                                 THEN "running" ELSE "release_test"
                  /\ UNCHANGED <<in_stream, calls>>
             [] listener = "press_test" ->
                  /\ listener' = IF start_stream_called(TRUE, in_stream)
                                 THEN "press_call" ELSE "running"
                  /\ UNCHANGED <<in_stream, calls>>
             [] listener = "release_test" ->
                  /\ listener' = IF pause_stream_called(TRUE, in_stream)
                                 THEN "release_call" ELSE "running"
                  /\ UNCHANGED <<in_stream, calls>>
             [] listener = "press_call" ->
                  /\ listener' = "running"
                  /\ in_stream' = "active"
                  /\ calls' = Append(calls, [op |-> "start_stream", at |-> at])
             [] listener = "release_call" ->
                  /\ listener' = "running"
                  /\ in_stream' = "stopped"
                  /\ calls' = Append(calls, [op |-> "stop_stream", at |-> at])
    /\ UNCHANGED <<is_recording, stream_ready, events, nkeys,
                   watchVars, cliVars, bufVars, fmtVars, sinkVars, animVars>>

\* The watcher finds the stream and enters mark_stream_ready:
\* "self._stream_ready = True".
WatcherMark ==
    /\ watcher = "polling"
    /\ in_stream # "none"
    /\ stream_ready' = TRUE
    /\ watcher' = "mark_test"
    /\ events' = Append(events, Event("ready", TRUE, is_recording, in_stream, FALSE))
    /\ UNCHANGED <<is_recording, in_stream, calls, nkeys, listener, elapsed,
                   cliVars, bufVars, fmtVars, sinkVars, animVars>>

\* The next statement of _pause_stream inside mark_stream_ready: the
\* is_active() test, the call; then the watcher returns.
WatcherStep ==
    /\ watcher \in {"mark_test", "mark_call"}
    /\ IF watcher = "mark_test"
       THEN /\ watcher' = IF pause_stream_called(TRUE, in_stream)
                          THEN "mark_call" ELSE "returned"
            /\ UNCHANGED <<in_stream, calls>>
       ELSE /\ watcher' = "returned"
            /\ in_stream' = "stopped"
            /\ calls' = Append(calls, [op |-> "stop_stream", at |-> LastOf({"ready"})])
    /\ UNCHANGED <<is_recording, stream_ready, events, nkeys, listener, elapsed,
                   cliVars, bufVars, fmtVars, sinkVars, animVars>>

----------------------------------------------------------------------------
(* The command-line pipeline: transport.input(), stt_service, llm_cleanup,  *)
(* text_inserter.  A frame pushed by one processor is queued for the next.  *)

\* Texts of the TranscriptionFrames the STT service produces.
SttTexts == {<<"a">>, <<"b", " ">>, <<" ">>}

\* Contents the chat-completion call may return: a text, a text with
\* whitespace around it, whitespace only, the empty string.
LlmReplies == {<<"A">>, <<" ", "A">>, <<" ">>, <<>>}

\* create_llm_service returns the pair (llm, system_prompt), and
\* create_dictation_pipeline hands that pair to LLMCleanupProcessor as its
\* llm_service.
create_llm_service == "tuple"

\* What the call "self._llm._client.chat.completions.create(...)" can do:
\* return content r, return no content (None), or raise.  On a tuple the
\* attribute _client does not exist and the expression always raises.
\* invoked tells whether the request reached the chat-completion client.
LlmOutcomes(llm) ==
    IF llm = "service"
    THEN {[kind |-> "content", text |-> r, invoked |-> TRUE] : r \in LlmReplies}
         \cup {[kind |-> "none", text |-> <<>>, invoked |-> TRUE],
               [kind |-> "raise", text |-> <<>>, invoked |-> TRUE]}
    ELSE {[kind |-> "raise", text |-> <<>>, invoked |-> FALSE]}

\* Mutant of cleanup_text: the fallback returns the empty string.
CleanupOrEmpty(text, outcome) ==
    IF outcome.kind = "content" /\ outcome.text # <<>>
    THEN strip(outcome.text)
    ELSE <<>>

\* LLMCleanupProcessor._cleanup_text: the stripped content when the call
\* returned one ("if cleaned:"), else the text itself; "except Exception"
\* encloses the call and the reading of the response.
cleanup_text(text, outcome) ==
    IF outcome.kind = "content" /\ outcome.text # <<>>
    THEN strip(outcome.text)
    ELSE text

\* The recording session a frame captured now belongs to: the index in
\* events of the press that started it, 0 when the hotkey is not held.
RECURSIVE LastPress(_)
LastPress(n) ==
    IF n = 0 THEN 0
    ELSE IF events[n].ev = "press" /\ events[n].eff THEN n ELSE LastPress(n - 1)

CurrentSession == IF is_recording THEN LastPress(Len(events)) ELSE 0

\* The STT service turns captured audio into a TranscriptionFrame; audio is
\* captured only while the stream is active.
SttTranscription(t) ==
    /\ nfrags < MaxFrags
    /\ in_stream = "active"
    /\ nfrags' = nfrags + 1
    /\ sttOut' = Append(sttOut, [text |-> t, sess |-> CurrentSession])
    /\ UNCHANGED <<toInserter, inserted, ctlVars, watchVars, bufVars, fmtVars, sinkVars, animVars>>

\* LLMCleanupProcessor.process_frame on a TranscriptionFrame.  The TextFrame
\* pushed is tagged with the text it was made from and with what the
\* chat-completion call did.
LlmCleanup(outcome) ==
    /\ sttOut # <<>>
    /\ LET f == Head(sttOut)
       IN  /\ sttOut' = Tail(sttOut)
           /\ IF NonBlank(f.text)
              THEN toInserter' = Append(toInserter,
                       [text |-> cleanup_text(f.text, outcome), sess |-> f.sess,
                        src |-> f.text, llm |-> outcome])
              ELSE UNCHANGED toInserter
    /\ UNCHANGED <<inserted, nfrags, ctlVars, watchVars, bufVars, fmtVars, sinkVars, animVars>>

\* TextInserterProcessor.process_frame on a TextFrame; typed tells whether
\* the typing of _insert_text succeeded (a failure is caught and logged).
TextInserter(typed) ==
    /\ toInserter # <<>>
    /\ LET f == Head(toInserter)
       IN  /\ toInserter' = Tail(toInserter)
           /\ IF NonBlank(f.text)
              THEN inserted' = Append(inserted,
                       [text |-> f.text, sess |-> f.sess, typed |-> typed])
              ELSE /\ typed
                   /\ UNCHANGED inserted
    /\ UNCHANGED <<sttOut, nfrags, ctlVars, watchVars, bufVars, fmtVars, sinkVars, animVars>>

\* ---- TextInserterProcessor, one statement at a time ----
\* The base FrameProcessor runs process_frame on one frame at a time, in the
\* order of arrival; inside it the typing is awaited, so the event loop is
\* free while a worker thread types.

\* The texts of the TextFrames reaching the processor.
SinkTexts == {<<"a">>, <<"b">>, <<" ">>, <<>>}

TextFrame(text) == [kind |-> "text", text |-> text]

\* The frames reaching the processor: TextFrames and one frame of another class.
SinkFrames == {TextFrame(t) : t \in SinkTexts} \cup {[kind |-> "audio"]}

\* Mutant of needs_typing: every TextFrame is typed, blank or not.
TypeAnyText(frame) == frame.kind = "text"

\* The two early returns of process_frame fail: the frame is a TextFrame and
\* "text and text.strip()" is true.
needs_typing(frame) ==
    /\ frame.kind = "text"
    /\ NonBlank(frame.text)

\* An entry of sink_log: a typing of pyautogui.write (ok tells whether it
\* returned or raised) or a push_frame, with the arrival number of the frame
\* and the thread it ran on.
SinkEntry(op, arrival, ctx, ok) ==
    [op |-> op, n |-> arrival.n, frame |-> arrival.frame, ctx |-> ctx, ok |-> ok]

\* The previous processor pushes a frame to this one.
SinkArrive(frame) ==
    /\ sink_n < MaxSinkFrames
    /\ sink_n' = sink_n + 1
    /\ sink_in' = Append(sink_in, [frame |-> frame, n |-> sink_n + 1])
    /\ UNCHANGED <<sink_cur, sink_log, ctlVars, watchVars, cliVars, bufVars, fmtVars, animVars>>

\* process_frame is entered with the next frame.  A frame that is not typed is
\* pushed at once; for the others _insert_text starts with its sleep.
SinkProcessFrame ==
    /\ sink_cur = <<>>
    /\ sink_in # <<>>
    /\ LET a == Head(sink_in)
       IN  /\ sink_in' = Tail(sink_in)
           /\ IF needs_typing(a.frame)
              THEN /\ sink_cur' = <<[arrival |-> a, at |-> "sleep"]>>
                   /\ UNCHANGED sink_log
              ELSE /\ sink_log' = Append(sink_log, SinkEntry("push", a, "loop", TRUE))
                   /\ UNCHANGED sink_cur
    /\ UNCHANGED <<sink_n, ctlVars, watchVars, cliVars, bufVars, fmtVars, animVars>>

\* The sleep of _insert_text is over: run_in_executor hands _type_text_sync to
\* a thread of the default executor and process_frame awaits it.
SinkSubmit ==
    /\ sink_cur # <<>>
    /\ sink_cur[1].at = "sleep"
    /\ sink_cur' = <<[sink_cur[1] EXCEPT !.at = "executor"]>>
    /\ UNCHANGED <<sink_in, sink_log, sink_n, ctlVars, watchVars, cliVars, bufVars, fmtVars, animVars>>

\* _type_text_sync on the worker thread: pyautogui.write returns or raises.
SinkType(ok) ==
    /\ sink_cur # <<>>
    /\ sink_cur[1].at = "executor"
    /\ sink_log' = Append(sink_log, SinkEntry("type", sink_cur[1].arrival, "worker", ok))
    /\ sink_cur' = <<[sink_cur[1] EXCEPT !.at = "typed"]>>
    /\ UNCHANGED <<sink_in, sink_n, ctlVars, watchVars, cliVars, bufVars, fmtVars, animVars>>

\* The await of _insert_text returns, or raises and the except clause logs
\* the error; process_frame then pushes the frame.
SinkPush ==
    /\ sink_cur # <<>>
    /\ sink_cur[1].at = "typed"
    /\ sink_log' = Append(sink_log, SinkEntry("push", sink_cur[1].arrival, "loop", TRUE))
    /\ sink_cur' = <<>>
    /\ UNCHANGED <<sink_in, sink_n, ctlVars, watchVars, cliVars, bufVars, fmtVars, animVars>>

----------------------------------------------------------------------------
(* TranscriptionBufferProcessor, the Consolidator of the WebSocket server    *)
(* pipeline: transport.input(), stt_service, transcription_buffer,          *)
(* llm_cleanup, text_response, transport.output().                          *)

\* Texts, user ids and languages of the TranscriptionFrames delivered.
FragTexts == {<<>>, <<" ">>, <<"a">>, <<"b", " ">>}
UserIds == {"u1", "u2"}
Languages == {"en", "None"}

\* Types of the RTVIClientMessageFrames other than stop-recording.
OtherMessageTypes == {"start-recording"}

TranscriptionFrame(text, user_id, language) ==
    [kind |-> "transcription", text |-> text, user_id |-> user_id, language |-> language]

RTVIClientMessageFrame(type) ==
    [kind |-> "client-message", type |-> type]

\* The concatenation of the texts of a sequence of frames.
RECURSIVE ConcatTexts(_)
ConcatTexts(frames) ==
    IF frames = <<>> THEN <<>> ELSE Head(frames).text \o ConcatTexts(Tail(frames))

\* Mutant of buffer_append: the fragments are joined with a space.
AppendWithSpace(buf, text) ==
    IF buf = <<>> THEN text ELSE buf \o <<" ">> \o text

\* "self._buffer += text"
buffer_append(buf, text) == buf \o text

\* Mutant of flush_emits: the buffer is tested without strip().
FlushIfNotEmpty(buf) == buf # <<>>

\* "if self._buffer.strip():"
flush_emits(buf) == strip(buf) # <<>>

\* process_frame on a TranscriptionFrame: the text is buffered and the
\* metadata kept when the text is not empty; nothing is pushed.
BufferTranscription(text, user_id, language) ==
    /\ nframes < MaxFrames
    /\ nframes' = nframes + 1
    /\ window' = Append(window, TranscriptionFrame(text, user_id, language))
    /\ IF text # <<>>
       THEN /\ buffer' = buffer_append(buffer, text)
            /\ last_user_id' = user_id
            /\ last_language' = language
       ELSE UNCHANGED <<buffer, last_user_id, last_language>>
    /\ UNCHANGED <<pushed, flushes, others_in, ctlVars, watchVars, cliVars, sinkVars, animVars>>

\* Mutant of flushed_buffer: the buffer is kept after a flush.
KeepBuffer(buf) == buf

\* "self._buffer = ''" after the consolidated frame is pushed.
flushed_buffer(buf) == <<>>

\* process_frame on the RTVIClientMessageFrame "stop-recording": the buffer
\* is flushed as one TranscriptionFrame when its stripped text is not empty;
\* the message is not passed on.  The log entry keeps the frames received
\* since the previous message, the buffer before and after, and the frames
\* this call pushed.
BufferStopRecording ==
    /\ nframes < MaxFrames
    /\ nframes' = nframes + 1
    /\ IF flush_emits(buffer)
       THEN /\ pushed' = Append(pushed,
                    TranscriptionFrame(strip(buffer), last_user_id, last_language))
            /\ buffer' = flushed_buffer(buffer)
       ELSE UNCHANGED <<pushed, buffer>>
    /\ flushes' = Append(flushes,
           [window |-> window, before |-> buffer, after |-> buffer',
            out |-> SubSeq(pushed', Len(pushed) + 1, Len(pushed'))])
    /\ window' = <<>>
    /\ UNCHANGED <<last_user_id, last_language, others_in, ctlVars, watchVars, cliVars, sinkVars, animVars>>

\* The directions a frame travels in.
Directions == {"downstream", "upstream"}

\* Mutant of forward: every frame is pushed downstream.
ForwardDownstream(frame, direction) ==
    [kind |-> "forwarded", frame |-> frame, direction |-> "downstream"]

\* "await self.push_frame(frame, direction)": the frame itself, in the
\* direction it came in.
forward(frame, direction) ==
    [kind |-> "forwarded", frame |-> frame, direction |-> direction]

\* process_frame on any other frame: passed through unchanged.
BufferPassThrough(frame, direction) ==
    /\ nframes < MaxFrames
    /\ nframes' = nframes + 1
    /\ others_in' = Append(others_in, [frame |-> frame, direction |-> direction])
    /\ pushed' = Append(pushed, forward(frame, direction))
    /\ UNCHANGED <<buffer, last_user_id, last_language, window, flushes,
                   ctlVars, watchVars, cliVars, sinkVars, animVars>>

\* The frame a transport with a voice-activity detector sends when the
\* speaker falls silent.
UserStoppedSpeakingFrame == [kind |-> "user-stopped-speaking"]

\* The frames that are neither a TranscriptionFrame nor stop-recording.
OtherFrames ==
    {RTVIClientMessageFrame(t) : t \in OtherMessageTypes}
        \cup {[kind |-> "audio"], UserStoppedSpeakingFrame}

----------------------------------------------------------------------------
(* TalkingAnimation, the processor of the voice agent's pipeline that shows *)
(* the robot talking or quiet (voice_agent.py).                             *)

BotStartedSpeakingFrame == [kind |-> "bot-started-speaking"]
BotStoppedSpeakingFrame == [kind |-> "bot-stopped-speaking"]

\* "talking_frame" and "quiet_frame", the two sprites.
talking_frame == [kind |-> "sprite"]
quiet_frame == [kind |-> "image"]

\* The frames reaching the processor.
AnimFrames == {BotStartedSpeakingFrame, BotStoppedSpeakingFrame, [kind |-> "audio"]}

\* Mutant of pushes_talking: the animation is pushed at every
\* BotStartedSpeakingFrame.
TalkingOnEveryStart(frame, talking) == frame = BotStartedSpeakingFrame

\* "isinstance(frame, BotStartedSpeakingFrame)" and "not self._is_talking"
pushes_talking(frame, talking) ==
    /\ frame = BotStartedSpeakingFrame
    /\ ~talking

\* "elif isinstance(frame, BotStoppedSpeakingFrame)"
pushes_quiet(frame) == frame = BotStoppedSpeakingFrame

\* An entry of anim_log: one push_frame, made while the n-th arrival was
\* processed.
AnimPush(frame, direction, n) == [frame |-> frame, direction |-> direction, n |-> n]

\* TalkingAnimation.process_frame(frame, direction).
AnimationProcessFrame(frame, direction) ==
    /\ Len(anim_in) < MaxAnimFrames
    /\ anim_in' = Append(anim_in, [frame |-> frame, direction |-> direction])
    /\ LET n == Len(anim_in) + 1
           sprite == IF pushes_talking(frame, is_talking)
                     THEN <<AnimPush(talking_frame, "downstream", n)>>
                     ELSE IF frame # BotStartedSpeakingFrame /\ pushes_quiet(frame)
                     THEN <<AnimPush(quiet_frame, "downstream", n)>>
                     ELSE <<>>
       IN  anim_log' = anim_log \o sprite \o <<AnimPush(frame, direction, n)>>
    /\ is_talking' = IF frame = BotStartedSpeakingFrame THEN TRUE
                     ELSE IF pushes_quiet(frame) THEN FALSE
                     ELSE is_talking
    /\ UNCHANGED <<ctlVars, watchVars, cliVars, bufVars, fmtVars, sinkVars>>

----------------------------------------------------------------------------
(* AutoFormatterProcessor: the rule-based cleanup *)

LowerLetters == <<"a", "b", "c", "d", "e", "f", "g", "h", "i", "j", "k", "l", "m", "n", "o", "p", "q", "r", "s", "t", "u", "v", "w", "x", "y", "z">>
UpperLetters == <<"A", "B", "C", "D", "E", "F", "G", "H", "I", "J", "K", "L", "M", "N", "O", "P", "Q", "R", "S", "T", "U", "V", "W", "X", "Y", "Z">>
Digits == {"0", "1", "2", "3", "4", "5", "6", "7", "8", "9"}

IsLower(c) == \E n \in DOMAIN LowerLetters : LowerLetters[n] = c
IsUpper(c) == \E n \in DOMAIN UpperLetters : UpperLetters[n] = c

\* str.isalpha() and the class [A-Za-z], on the characters of the model.
IsAlpha(c) == IsLower(c) \/ IsUpper(c)

\* The regular expressions' \w.
IsWordChar(c) == IsAlpha(c) \/ c \in Digits \/ c = "_"

\* str.upper() of one character.
ToUpper(c) ==
    IF IsLower(c)
    THEN UpperLetters[CHOOSE n \in DOMAIN LowerLetters : LowerLetters[n] = c]
    ELSE c

\* The lower-case form re.IGNORECASE compares.
ToLower(c) ==
    IF IsUpper(c)
    THEN LowerLetters[CHOOSE n \in DOMAIN UpperLetters : UpperLetters[n] = c]
    ELSE c

\* The class [.,!?;:] of _clean_whitespace.
Punctuation == {".", ",", "!", "?", ";", ":"}

\* The characters ".!?" of _add_punctuation and _capitalize_sentences.
Terminal == {".", "!", "?"}

\* FILLER_WORDS with "so" added (mutant of FILLER_WORDS).
FillersWithSo ==
    <<<<"u", "m">>,
      <<"u", "h">>,
      <<"u", "h", "m">>,
      <<"u", "m", "m">>,
      <<"a", "h">>,
      <<"e", "r">>,
      <<"h", "m", "m">>,
      <<"h", "m">>,
      <<"l", "i", "k", "e">>,
      <<"y", "o", "u", " ", "k", "n", "o", "w">>,
      <<"i", " ", "m", "e", "a", "n">>,
      <<"s", "o", "r", "t", " ", "o", "f">>,
      <<"k", "i", "n", "d", " ", "o", "f">>,
      <<"b", "a", "s", "i", "c", "a", "l", "l", "y">>,
      <<"a", "c", "t", "u", "a", "l", "l", "y">>,
      <<"l", "i", "t", "e", "r", "a", "l", "l", "y">>,
      <<"s", "o">>>>

\* FILLER_WORDS.  The code iterates over a set, whose order is not fixed:
\* remove_filler_words takes the order as an argument.
FILLER_WORDS ==
    <<<<"u", "m">>,
      <<"u", "h">>,
      <<"u", "h", "m">>,
      <<"u", "m", "m">>,
      <<"a", "h">>,
      <<"e", "r">>,
      <<"h", "m", "m">>,
      <<"h", "m">>,
      <<"l", "i", "k", "e">>,
      <<"y", "o", "u", " ", "k", "n", "o", "w">>,
      <<"i", " ", "m", "e", "a", "n">>,
      <<"s", "o", "r", "t", " ", "o", "f">>,
      <<"k", "i", "n", "d", " ", "o", "f">>,
      <<"b", "a", "s", "i", "c", "a", "l", "l", "y">>,
      <<"a", "c", "t", "u", "a", "l", "l", "y">>,
      <<"l", "i", "t", "e", "r", "a", "l", "l", "y">>>>

\* The regular expressions' \b between s[i-1] and s[i].
WordBoundary(s, i) ==
    (i > 1 /\ IsWordChar(s[i - 1])) # (i <= Len(s) /\ IsWordChar(s[i]))

\* Whether r"\b" + re.escape(filler) + r"\b" matches s at i, ignoring case.
FillerMatchAt(s, filler, i) ==
    /\ i + Len(filler) - 1 <= Len(s)
    /\ \A k \in 1..Len(filler) : ToLower(s[i + k - 1]) = filler[k]
    /\ WordBoundary(s, i)
    /\ WordBoundary(s, i + Len(filler))

\* re.sub(pattern, "", s, flags=re.IGNORECASE) from position i on: the
\* matches are found left to right and do not overlap.
RECURSIVE SubFillerFrom(_, _, _)
SubFillerFrom(s, filler, i) ==
    IF i > Len(s) THEN <<>>
    ELSE IF FillerMatchAt(s, filler, i)
         THEN SubFillerFrom(s, filler, i + Len(filler))
         ELSE <<s[i]>> \o SubFillerFrom(s, filler, i + 1)

\* _remove_filler_words, the fillers taken in the order given.
RECURSIVE remove_filler_words(_, _)
remove_filler_words(text, fillers) ==
    IF fillers = <<>> THEN text
    ELSE remove_filler_words(SubFillerFrom(text, Head(fillers), 1), Tail(fillers))

\* The end of the run of whitespace that starts at i: the first j >= i with
\* s[j] not whitespace, Len(s) + 1 when there is none.
RECURSIVE RunEnd(_, _)
RunEnd(s, i) ==
    IF i > Len(s) \/ ~IsSpace(s[i]) THEN i ELSE RunEnd(s, i + 1)

\* re.sub(r"\s+", " ", s) from position i on.
RECURSIVE CollapseFrom(_, _)
CollapseFrom(s, i) ==
    IF i > Len(s) THEN <<>>
    ELSE IF IsSpace(s[i])
         THEN <<" ">> \o CollapseFrom(s, RunEnd(s, i))
         ELSE <<s[i]>> \o CollapseFrom(s, i + 1)

\* re.sub(r"\s+([.,!?;:])", r"\1", s) from position i on.
RECURSIVE UnspaceFrom(_, _)
UnspaceFrom(s, i) ==
    IF i > Len(s) THEN <<>>
    ELSE IF IsSpace(s[i])
         THEN LET j == RunEnd(s, i)
              IN  IF j <= Len(s) /\ s[j] \in Punctuation
                  THEN <<s[j]>> \o UnspaceFrom(s, j + 1)
                  ELSE SubSeq(s, i, j - 1) \o UnspaceFrom(s, j)
         ELSE <<s[i]>> \o UnspaceFrom(s, i + 1)

\* re.sub(r"([.,!?;:])([A-Za-z])", r"\1 \2", s) from position i on.
RECURSIVE RespaceFrom(_, _)
RespaceFrom(s, i) ==
    IF i > Len(s) THEN <<>>
    ELSE IF s[i] \in Punctuation /\ i < Len(s) /\ IsAlpha(s[i + 1])
         THEN <<s[i], " ", s[i + 1]>> \o RespaceFrom(s, i + 2)
         ELSE <<s[i]>> \o RespaceFrom(s, i + 1)

\* _clean_whitespace
clean_whitespace(text) ==
    strip(RespaceFrom(UnspaceFrom(CollapseFrom(text, 1), 1), 1))

\* _add_punctuation
add_punctuation(text) ==
    IF text = <<>> THEN text
    ELSE IF text[Len(text)] \notin Terminal THEN Append(text, ".") ELSE text

\* Whether a part of re.split(r"([.!?]\s*)", s) that is not a delimiter
\* starts at i: at the start of s, or after a terminal character and the
\* whitespace that follows it.
RECURSIVE AfterTerminal(_, _)
AfterTerminal(s, i) ==
    IF i = 1 THEN FALSE
    ELSE IF s[i - 1] \in Terminal THEN TRUE
    ELSE IF IsSpace(s[i - 1]) THEN AfterTerminal(s, i - 1)
    ELSE FALSE

StartsPart(s, i) == i = 1 \/ AfterTerminal(s, i)

\* _capitalize_sentences
capitalize_sentences(text) ==
    [i \in 1..Len(text) |->
        IF IsAlpha(text[i]) /\ StartsPart(text, i) THEN ToUpper(text[i]) ELSE text[i]]

\* _format_text, the fillers taken in the order given.
format_text(text, fillers) ==
    IF text = <<>> \/ strip(text) = <<>> THEN text
    ELSE strip(capitalize_sentences(add_punctuation(clean_whitespace(
             remove_filler_words(text, fillers)))))

----------------------------------------------------------------------------
(* The rule-based pipeline: transcription_buffer, then AutoFormatterProcessors *)

\* Texts the fragments of a scripted session are made of.
Pieces ==
    {<<"u", "m">>,
     <<" ">>,
     <<"y", "o", "u", " ">>,
     <<" ", "k", "n", "o", "w">>,
     <<".">>,
     <<"b">>,
     <<"L", "i", "k", "e">>}

\* The fragments "um ", " so ", "the meeting is at noon".
ScenarioFragments ==
    <<<<"u", "m", " ">>,
      <<" ", "s", "o", " ">>,
      <<"t", "h", "e", " ", "m", "e", "e", "t", "i", "n", "g", " ", "i", "s", " ", "a", "t", " ", "n", "o", "o", "n">>>>

\* The sessions a run of SpecRules may deliver.
FragScripts ==
    UNION {[1..n -> Pieces] : n \in 1..MaxPieces} \cup {ScenarioFragments}

Reverse(seq) == [n \in 1..Len(seq) |-> seq[Len(seq) + 1 - n]]

\* Orders in which the set FILLER_WORDS may be iterated.
FillerOrders == {FILLER_WORDS, Reverse(FILLER_WORDS)}

\* The next fragment of the session reaches the TranscriptionBufferProcessor.
RulesFragment ==
    /\ script # <<>>
    /\ BufferTranscription(Head(script), "u1", "en")
    /\ script' = Tail(script)
    /\ UNCHANGED <<formatted, filler_order>>

\* The stop-recording message ends the session.
RulesStop ==
    /\ script = <<>>
    /\ flushes = <<>>
    /\ BufferStopRecording
    /\ UNCHANGED fmtVars

\* AutoFormatterProcessor.process_frame on a TextFrame (enabled): the first
\* processor takes the flushed TranscriptionFrame, the next one the frame
\* the one before it pushed.
AutoFormatterFrame ==
    /\ pushed # <<>>
    /\ Len(formatted) < MaxPasses
    /\ LET text == IF formatted = <<>> THEN pushed[1].text
                   ELSE formatted[Len(formatted)]
       IN  formatted' = Append(formatted, format_text(text, filler_order))
    /\ UNCHANGED <<script, filler_order, ctlVars, watchVars, cliVars, bufVars, sinkVars, animVars>>

----------------------------------------------------------------------------
(* Reading the logs *)

\* The operations of the calls made on the stream by event number k.
RECURSIVE OpsAt(_, _)
OpsAt(log, k) ==
    IF log = <<>> THEN <<>>
    ELSE IF Head(log).at = k
         THEN <<Head(log).op>> \o OpsAt(Tail(log), k)
         ELSE OpsAt(Tail(log), k)

\* The operations of the calls made by the events numbered from..to.
RECURSIVE OpsIn(_, _, _)
OpsIn(log, from, to) ==
    IF log = <<>> THEN <<>>
    ELSE IF Head(log).at >= from /\ Head(log).at <= to
         THEN <<Head(log).op>> \o OpsIn(Tail(log), from, to)
         ELSE OpsIn(Tail(log), from, to)

\* The number of the mark_stream_ready event, 0 before it.
ReadyIndex ==
    IF \E k \in DOMAIN events : events[k].ev = "ready"
    THEN CHOOSE k \in DOMAIN events : events[k].ev = "ready"
    ELSE 0

\* The first release of the hotkey after event i, 0 when there is none yet.
FirstRelease(i) ==
    LET later == {j \in DOMAIN events : j > i /\ events[j].ev = "release"}
    IN  IF later = {} THEN 0 ELSE CHOOSE j \in later : \A m \in later : j <= m

\* Event i is a hotkey press that started a session (the key was not held).
IsPress(i) == events[i].ev = "press" /\ events[i].eff

\* The session started by press i was armed and disarmed before the
\* stream-ready signal.
Dropped(i) ==
    /\ IsPress(i)
    /\ FirstRelease(i) > 0
    /\ (ReadyIndex = 0 \/ ReadyIndex > FirstRelease(i))

\* The stream-ready signal arrived while the hotkey was held.
ArmedAtReady == ReadyIndex > 0 /\ events[ReadyIndex].rec

----------------------------------------------------------------------------
(* Claims about the controller *)

C2_ArmedSessionResumes ==
    ArmedAtReady =>
        /\ OpsAt(calls, ReadyIndex) = <<"start_stream">>
        /\ events[ReadyIndex].stream = "active"
        /\ LET j == FirstRelease(ReadyIndex)
           IN  j > 0 =>
                   /\ OpsAt(calls, j) = <<"stop_stream">>
                   /\ OpsIn(calls, 1, j) = <<"start_stream", "stop_stream">>

\* C3 as stated: a session armed and disarmed before the stream-ready signal
\* leaves the controller Idle and makes no call on the stream: none at the
\* press, none at the release, none when the signal arrives later.
C3_DroppedSessionNoCalls ==
    \A i \in DOMAIN events :
        Dropped(i) =>
            LET j == FirstRelease(i)
            IN  /\ OpsAt(calls, i) = <<>>
                /\ OpsAt(calls, j) = <<>>
                /\ ~events[j].rec
                /\ (ReadyIndex > 0 /\ ~ArmedAtReady) => OpsAt(calls, ReadyIndex) = <<>>

\* C3 as amended: a session armed and disarmed before the stream-ready signal
\* leaves the controller Idle and makes no call at the press nor at the
\* release; the signal, arriving later with the key not held, makes exactly
\* one call, stop_stream (the initial pause), and no start_stream.
C3_DroppedSessionInitialPause ==
    \A i \in DOMAIN events :
        Dropped(i) =>
            LET j == FirstRelease(i)
            IN  /\ OpsAt(calls, i) = <<>>
                /\ OpsAt(calls, j) = <<>>
                /\ ~events[j].rec
                /\ (ReadyIndex > 0 /\ ~ArmedAtReady) =>
                       /\ OpsAt(calls, ReadyIndex) = <<"stop_stream">>
                       /\ OpsIn(calls, 1, ReadyIndex) = <<"stop_stream">>

\* C3, witness: a dropped session, and the signal arrived after it.
C3_Witness ==
    /\ \E i \in DOMAIN events : Dropped(i)
    /\ ReadyIndex > 0
    /\ ~ArmedAtReady
    /\ in_stream = "stopped"

\* C4: after the stream-ready signal, a press while Idle leaves the
\* controller Recording with the stream active and makes exactly one call,
\* start_stream; the release that follows leaves it Idle with the stream
\* stopped and makes exactly one call, stop_stream.
C4_CycleAfterReady ==
    \A i \in DOMAIN events :
        (IsPress(i) /\ ReadyIndex > 0 /\ ReadyIndex < i) =>
            /\ events[i].rec
            /\ events[i].stream = "active"
            /\ OpsAt(calls, i) = <<"start_stream">>
            /\ LET j == FirstRelease(i)
               IN  j > 0 =>
                       /\ ~events[j].rec
                       /\ events[j].stream = "stopped"
                       /\ OpsAt(calls, j) = <<"stop_stream">>

\* C4, witness: after the signal, a whole cycle and the press of the next.
C4_Witness ==
    /\ ReadyIndex = 1
    /\ Len(events) = 4
    /\ IsPress(2) /\ FirstRelease(2) = 3
    /\ IsPress(4)

\* C8: the texts handed to the keystroke sink for one recording session are
\* at most one.
C8_OneTextPerSession ==
    \A m, n \in DOMAIN inserted :
        (inserted[m].sess > 0 /\ inserted[m].sess = inserted[n].sess) => m = n

\* C5: a release that ends a Recording state (the hotkey held, the stream
\* ready) sends exactly one end-of-utterance signal to the Consolidator, and
\* no other controller event sends one.
C5_ReleaseFlushesOnce ==
    [][ /\ (is_recording /\ stream_ready /\ ~is_recording')
            => Len(flushes') = Len(flushes) + 1
        /\ (events' # events /\ ~(is_recording /\ stream_ready /\ ~is_recording'))
            => flushes' = flushes ]_vars

----------------------------------------------------------------------------
(* Claims about the controller's threads, its shutdown and a failing stream *)

\* C13: a handler run on the listener thread (on_press, on_release) changes
\* no controller state and makes no call on the stream itself.
C13_HandOffOnly ==
    \A k \in DOMAIN events :
        Context(events[k].ev) = "listener" =>
            /\ ~events[k].eff
            /\ OpsAt(calls, k) = <<>>

\* C14: once the watcher has timed out and the capture stream exists, the
\* controller is eventually marked ready (unless the program is shut down
\* or the device disappears first).
C14_LateReadyHonored ==
    (watcher = "timed_out" /\ in_stream \in {"active", "stopped"})
        ~> (stream_ready \/ ShutDown \/ in_stream = "dead")

\* C15: stop_listening() run while the controller is Recording, the stream
\* ready and active, makes exactly one call on the stream, stop_stream.
C15_ShutdownPauses ==
    \A k \in DOMAIN events :
        ( /\ events[k].ev = "shutdown"
          /\ events[k].rec
          /\ events[k].stream = "active"
          /\ ReadyIndex > 0 /\ ReadyIndex < k )
        => OpsAt(calls, k) = <<"stop_stream">>

\* C16: after stop_listening() has returned, no on_press or on_release
\* callback is delivered to the controller.
C16_NoCallbackAfterShutdown ==
    \A k, m \in DOMAIN events :
        (events[k].ev = "shutdown" /\ m > k) => Context(events[m].ev) # "listener"

\* The releases before event i that ended a session with a Pause.
DisarmedBefore(i) ==
    {j \in 1..(i - 1) : /\ events[j].ev = "release" /\ events[j].eff
                        /\ OpsAt(calls, j) = <<"stop_stream">>}

\* C17: when a press makes the Resume call of a new session, every earlier
\* session ended by a release with a Pause has had its flush: the
\* Consolidator has handled one end-of-utterance signal for each.
C17_FlushBeforeNextResume ==
    \A n \in DOMAIN calls :
        (calls[n].op = "start_stream" /\ events[calls[n].at].ev = "press") =>
            Len(flushes) >= Cardinality(DisarmedBefore(calls[n].at))

\* C18: a press of the hotkey while Recording and a release of it while
\* Idle change nothing of the controller and make no call on the stream.
C18_ReentrantIgnored ==
    [][ (/\ events' # events
         /\ LET e == events'[Len(events')]
            IN  \/ (e.ev = "press" /\ is_recording)
                \/ (e.ev = "release" /\ ~is_recording))
        => UNCHANGED <<is_recording, stream_ready, in_stream, calls, listener>> ]_vars

\* C18, witness: a release while Idle and a press while Recording happened.
C18_Witness ==
    /\ \E k \in DOMAIN events : events[k].ev = "release" /\ ~events[k].eff
    /\ \E k \in DOMAIN events : events[k].ev = "press" /\ ~events[k].eff
    /\ is_recording

\* Event k was handled before mark_stream_ready.
BeforeReady(k) == ReadyIndex = 0 \/ k < ReadyIndex

\* C19: every call on the stream is made at or after the stream-ready
\* signal; a press, a release or a shutdown before it makes no call, raises
\* nothing and leaves the stream as it was.
C19_NoCallBeforeReady ==
    /\ \A n \in DOMAIN calls : ~BeforeReady(calls[n].at)
    /\ \A k \in DOMAIN events :
           BeforeReady(k) => OpsAt(calls, k) = <<>> /\ ~events[k].raised
    /\ ~stream_ready => calls = <<>>

\* C19, witness: before the signal, with the stream already running, the
\* hotkey was pressed and released.
C19_Witness ==
    /\ ReadyIndex = 0
    /\ in_stream = "active"
    /\ \E i \in DOMAIN events :
           /\ IsPress(i) /\ events[i].stream = "active"
           /\ FirstRelease(i) > 0 /\ events[FirstRelease(i)].eff

\* mark_stream_ready has returned and no callback is executing.
Quiescent == watcher = "returned" /\ listener = "running"

\* C24: once mark_stream_ready has returned and no callback is executing,
\* is_recording implies that the stream is active.
C24_HeldKeyCaptured ==
    (Quiescent /\ is_recording) => in_stream = "active"

\* C25: once mark_stream_ready has returned and no callback is executing,
\* the stream is active only if is_recording is true.
C25_IdleNotCaptured ==
    (Quiescent /\ in_stream = "active") => is_recording

\* C25, witness: a release and mark_stream_ready ran into each other (both
\* stopped the stream), and the next press started it.
C25_Witness ==
    /\ Quiescent
    /\ is_recording
    /\ in_stream = "active"
    /\ Len(calls) = 3
    /\ calls[1].op = "stop_stream" /\ calls[2].op = "stop_stream"
    /\ calls[1].at # calls[2].at
    /\ calls[3].op = "start_stream"

\* C21: a call of mark_stream_ready made when the controller is already
\* marked ready makes no call on the stream and leaves is_recording and the
\* stream as they were.
C21_ReadyIdempotent ==
    [][ (/\ events' # events
         /\ events'[Len(events')].ev = "ready"
         /\ stream_ready)
        => UNCHANGED <<is_recording, stream_ready, in_stream, calls>> ]_vars

\* C20: no exception raised by the stream leaves on_press, on_release or
\* mark_stream_ready.
C20_FailureCaught ==
    \A k \in DOMAIN events : ~events[k].raised

----------------------------------------------------------------------------
(* Claims about the external-model cleanup *)

\* The chat-completion call raised, or returned None or the empty string.
FailedOrEmpty(outcome) ==
    \/ outcome.kind = "raise"
    \/ outcome.kind = "none"
    \/ (outcome.kind = "content" /\ outcome.text = <<>>)

\* C11: when the chat-completion call raises or returns None or the empty
\* string, the TextFrame pushed for the utterance carries the utterance's
\* own text, unchanged.
C11_FallbackToOriginal ==
    \A n \in DOMAIN toInserter :
        FailedOrEmpty(toInserter[n].llm) => toInserter[n].text = toInserter[n].src

\* C11, witness: a frame pushed after the call raised, and one pushed after
\* it returned nothing, both waiting for the inserter.
C11_Witness ==
    /\ Len(toInserter) = 2
    /\ toInserter[1].llm.kind = "raise"
    /\ toInserter[2].llm.kind # "raise"
    /\ FailedOrEmpty(toInserter[2].llm)

\* C26: in the pipeline as create_dictation_pipeline assembles it, the
\* chat-completion client is invoked for every utterance cleaned, and when
\* it returns a non-empty content the text pushed is that content, stripped.
C26_CollaboratorInvoked ==
    \A n \in DOMAIN toInserter :
        LET f == toInserter[n]
        IN  /\ f.llm.invoked
            /\ (f.llm.kind = "content" /\ f.llm.text # <<>>) => f.text = strip(f.llm.text)

\* C12: every TranscriptionFrame with non-blank text that the cleanup stage
\* takes makes it push exactly one TextFrame, and the text of that frame is
\* not empty, whatever the chat-completion call did.
C12_NeverDrops ==
    [][ (sttOut # <<>> /\ sttOut' = Tail(sttOut) /\ NonBlank(Head(sttOut).text))
            => /\ Len(toInserter') = Len(toInserter) + 1
               /\ toInserter'[Len(toInserter')].text # <<>> ]_vars

----------------------------------------------------------------------------
(* Claims about the Consolidator *)

\* C6: every Utterance a stop-recording message emits carries the
\* concatenation, in arrival order and with nothing in between, of the texts
\* of the fragments received since the previous message, stripped of leading
\* and trailing whitespace.
C6_FlushIsTrimmedConcat ==
    \A k \in DOMAIN flushes :
        \A n \in DOMAIN flushes[k].out :
            flushes[k].out[n].text = strip(ConcatTexts(flushes[k].window))

\* C6, witness: two fragments with text were flushed as one Utterance, and
\* stripping removed something.
C6_Witness ==
    \E k \in DOMAIN flushes :
        /\ Len(flushes[k].window) = 2
        /\ \A n \in 1..2 : flushes[k].window[n].text # <<>>
        /\ flushes[k].window[1].text # flushes[k].window[2].text
        /\ Len(flushes[k].out) = 1
        /\ Len(flushes[k].out[1].text) < Len(ConcatTexts(flushes[k].window))

\* C7: a stop-recording message emits exactly one Utterance when the
\* stripped buffer is not empty, and none when the buffer is empty or holds
\* only whitespace.
C7_OneUtterancePerSignal ==
    \A k \in DOMAIN flushes :
        /\ strip(flushes[k].before) # <<>> =>
               /\ Len(flushes[k].out) = 1
               /\ flushes[k].out[1].kind = "transcription"
        /\ strip(flushes[k].before) = <<>> => flushes[k].out = <<>>

\* C7, witness: one message found only whitespace and emitted nothing,
\* another emitted an Utterance.
C7_Witness ==
    \E k, m \in DOMAIN flushes :
        /\ flushes[k].before # <<>>
        /\ flushes[k].out = <<>>
        /\ Len(flushes[m].out) = 1

\* C22: the Utterance a stop-recording message emits carries the user id
\* and the language of the last fragment received before the message,
\* whatever the text of that fragment.
C22_MetadataOfLastFragment ==
    \A k \in DOMAIN flushes :
        \A n \in DOMAIN flushes[k].out :
            LET w == flushes[k].window
            IN  /\ w # <<>>
                /\ flushes[k].out[n].user_id = w[Len(w)].user_id
                /\ flushes[k].out[n].language = w[Len(w)].language

\* C23: a silence event of the transport (UserStoppedSpeakingFrame) reaching
\* the processor flushes the buffer as stop-recording does: when the
\* stripped buffer is not empty, the consolidated frame is pushed and the
\* buffer emptied.
C23_SilenceFlushes ==
    [][ (/\ Len(others_in') > Len(others_in)
         /\ others_in'[Len(others_in')].frame = UserStoppedSpeakingFrame
         /\ flush_emits(buffer))
        => /\ buffer' = <<>>
           /\ \E n \in (Len(pushed) + 1)..Len(pushed') :
                  pushed'[n] = TranscriptionFrame(strip(buffer), last_user_id, last_language)
      ]_vars

\* C27: over several sessions, every Utterance emitted is the stripped
\* concatenation of the fragments received since the previous stop-recording
\* message, whether that message emitted anything or not, and its user id
\* and language are those of one fragment of that same window.
C27_WindowOnly ==
    \A k \in DOMAIN flushes :
        \A n \in DOMAIN flushes[k].out :
            LET w == flushes[k].window
                u == flushes[k].out[n]
            IN  /\ u.text = strip(ConcatTexts(w))
                /\ \E m \in DOMAIN w :
                       w[m].user_id = u.user_id /\ w[m].language = u.language

\* C27, witness: a first message found only whitespace and emitted nothing;
\* the second emitted the Utterance of the second window, with another user.
C27_Witness ==
    /\ Len(flushes) = 2
    /\ flushes[1].before # <<>> /\ flushes[1].out = <<>>
    /\ Len(flushes[2].out) = 1
    /\ flushes[2].before # ConcatTexts(flushes[2].window)
    /\ flushes[2].out[1].user_id # flushes[1].window[1].user_id

\* C28: after a stop-recording message is handled, the buffer is empty,
\* whether an Utterance was emitted or not.
C28_EmptyAfterSignal ==
    \A k \in DOMAIN flushes : flushes[k].after = <<>>

IsForwarded(f) == f.kind = "forwarded"

IsEmitted(f) == f.kind # "forwarded"

\* The frames the stop-recording messages emitted, in order.
RECURSIVE FlushOutputs(_)
FlushOutputs(log) ==
    IF log = <<>> THEN <<>> ELSE Head(log).out \o FlushOutputs(Tail(log))

\* The frames forwarded, each with the direction it was pushed in.
ForwardedOut ==
    LET fw == SelectSeq(pushed, IsForwarded)
    IN  [n \in DOMAIN fw |-> [frame |-> fw[n].frame, direction |-> fw[n].direction]]

\* C29: the frames the processor pushes are the Utterances of its flushes
\* and, once each, unchanged, in the direction and the order they came in,
\* the frames that are neither fragments nor stop-recording; no fragment
\* and no stop-recording message is among them.
C29_ForwardsOthersOnly ==
    /\ ForwardedOut = others_in
    /\ SelectSeq(pushed, IsEmitted) = FlushOutputs(flushes)
    /\ \A n \in DOMAIN pushed :
           IsForwarded(pushed[n]) =>
               /\ pushed[n].frame.kind # "transcription"
               /\ pushed[n].frame # RTVIClientMessageFrame("stop-recording")

\* C29, witness: a fragment, a client message of another type going
\* upstream, the stop-recording message and its Utterance, an audio frame.
C29_Witness ==
    /\ Len(pushed) = 3
    /\ pushed[1] = forward(RTVIClientMessageFrame("start-recording"), "upstream")
    /\ pushed[2].kind = "transcription"
    /\ pushed[3] = forward([kind |-> "audio"], "downstream")
    /\ Len(flushes) = 1 /\ flushes[1].window # <<>>

----------------------------------------------------------------------------
(* Claims about the rule-based cleanup *)

\* C9: cleaning a cleaned text changes nothing: the second
\* AutoFormatterProcessor pushes the text it received.
C9_CleanIdempotent ==
    Len(formatted) >= 2 => formatted[2] = formatted[1]

\* The session delivered was the scenario's, and its text was cleaned.
ScenarioCleaned ==
    /\ flushes # <<>>
    /\ [n \in DOMAIN flushes[1].window |-> flushes[1].window[n].text] = ScenarioFragments
    /\ formatted # <<>>

\* C10 as stated: the fragments "um ", " so ", "the meeting is at noon" are
\* flushed as "um  so the meeting is at noon", and cleaning that text gives
\* "The meeting is at noon.".
C10_ScenarioAsStated ==
    ScenarioCleaned =>
        /\ pushed[1].text = <<"u", "m", " ", " ", "s", "o", " ", "t", "h", "e", " ", "m", "e", "e", "t", "i", "n", "g", " ", "i", "s", " ", "a", "t", " ", "n", "o", "o", "n">>
        /\ formatted[1] = <<"T", "h", "e", " ", "m", "e", "e", "t", "i", "n", "g", " ", "i", "s", " ", "a", "t", " ", "n", "o", "o", "n", ".">>

\* C10 as amended: the fragments "um ", " so ", "the meeting is at noon" are
\* flushed as "um  so the meeting is at noon", and cleaning that text gives
\* "So the meeting is at noon.".
C10_ScenarioKeepsSo ==
    ScenarioCleaned =>
        /\ pushed[1].text = <<"u", "m", " ", " ", "s", "o", " ", "t", "h", "e", " ", "m", "e", "e", "t", "i", "n", "g", " ", "i", "s", " ", "a", "t", " ", "n", "o", "o", "n">>
        /\ formatted[1] = <<"S", "o", " ", "t", "h", "e", " ", "m", "e", "e", "t", "i", "n", "g", " ", "i", "s", " ", "a", "t", " ", "n", "o", "o", "n", ".">>

\* C10, witness: the scenario was delivered, flushed and cleaned.
C10_Witness ==
    /\ ScenarioCleaned
    /\ Len(pushed) = 1
    /\ script = <<>>

\* C30: the text the rule-based cleanup makes of a text with a character
\* that is not whitespace ends with '.', '!' or '?'.
C30_EndsWithTerminal ==
    (formatted # <<>> /\ strip(pushed[1].text) # <<>>) =>
        /\ formatted[1] # <<>>
        /\ formatted[1][Len(formatted[1])] \in Terminal

\* The key events logged so far.
KeyEvents == {k \in DOMAIN events : events[k].ev \in {"press", "release"}}

\* C33: on_press and on_release of a key that is not the hotkey change
\* neither is_recording nor _stream_ready nor the stream, and make no call
\* on the stream.
C33_OtherKeysIgnored ==
    [][ (\E key \in Keys \ {hotkey} : on_press(key) \/ on_release(key))
        => UNCHANGED <<is_recording, stream_ready, in_stream, calls, events, listener>> ]_vars

\* Another key was pressed or released, and the controller is Recording
\* with the stream ready and active.
C33_Witness ==
    /\ nkeys > Cardinality(KeyEvents)
    /\ is_recording
    /\ stream_ready
    /\ in_stream = "active"

\* The number of calls of mark_stream_ready so far.
ReadyCalls == Cardinality({k \in DOMAIN events : events[k].ev = "ready"})

\* C32: the watcher makes at most TimeoutPolls polls and at most one call of
\* mark_stream_ready; once it has made the call or has timed out it does
\* nothing more; it times out without a call and without an exception (only
\* an exception of the call itself ends it otherwise); and under fair
\* scheduling of its task it ends, unless the program is shut down first.
C32_WatcherTerminates ==
    /\ [](/\ elapsed <= TimeoutPolls
          /\ ReadyCalls <= 1
          /\ (watcher \in {"returned", "failed"}) <=> (ReadyCalls = 1)
          /\ watcher = "timed_out" => elapsed = TimeoutPolls
          /\ watcher = "failed" =>
                \E k \in DOMAIN events : events[k].ev = "ready" /\ events[k].raised)
    /\ [][watcher # "polling" =>
            /\ watcher' = watcher
            /\ elapsed' = elapsed
            /\ stream_ready' = stream_ready]_vars
    /\ <>(watcher # "polling" \/ ShutDown)

\* The watcher has called mark_stream_ready after a poll that found no stream.
C32_Witness ==
    /\ watcher = "returned"
    /\ elapsed > 0
    /\ ReadyCalls = 1

----------------------------------------------------------------------------
(* The keystroke sink, statement by statement (SpecSink) *)

\* The positions in sink_log of the entries of one kind about one arrival.
SinkAt(op, n) == {i \in 1..Len(sink_log) : sink_log[i].op = op /\ sink_log[i].n = n}

\* The arrivals process_frame has finished with.
SinkFinished ==
    {n \in 1..sink_n :
        /\ \A i \in 1..Len(sink_in) : sink_in[i].n # n
        /\ sink_cur = <<>> \/ sink_cur[1].arrival.n # n}

\* C31: the TextInserterProcessor types on a worker thread and only texts
\* that are not blank, in the order of their arrival; it pushes no frame
\* twice, pushes a text that is not blank only after its typing has returned
\* or raised, and has pushed every frame it has finished with exactly once,
\* whether the typing failed or not.
C31_TypeThenForward ==
    /\ \A i \in 1..Len(sink_log) :
          sink_log[i].op = "type" =>
              /\ sink_log[i].ctx = "worker"
              /\ sink_log[i].frame.kind = "text"
              /\ strip(sink_log[i].frame.text) # <<>>
    /\ \A i, j \in 1..Len(sink_log) :
          (i < j /\ sink_log[i].op = "type" /\ sink_log[j].op = "type")
              => sink_log[i].n < sink_log[j].n
    /\ \A i \in 1..Len(sink_log) :
          sink_log[i].op = "push" =>
              /\ sink_log[i].ctx = "loop"
              /\ Cardinality(SinkAt("push", sink_log[i].n)) = 1
              /\ IF sink_log[i].frame.kind = "text" /\ strip(sink_log[i].frame.text) # <<>>
                 THEN \E j \in SinkAt("type", sink_log[i].n) : j < i
                 ELSE SinkAt("type", sink_log[i].n) = {}
    /\ \A n \in SinkFinished : Cardinality(SinkAt("push", n)) = 1

\* A text whose typing raised has been pushed, a later text has been typed,
\* and a blank text has been pushed untyped.
C31_Witness ==
    \E i, j, k, l \in 1..Len(sink_log) :
        /\ sink_log[i].op = "type" /\ ~sink_log[i].ok
        /\ sink_log[j].op = "push" /\ sink_log[j].n = sink_log[i].n /\ i < j
        /\ sink_log[k].op = "type" /\ sink_log[k].ok /\ j < k
        /\ sink_log[l].op = "push" /\ sink_log[l].frame = TextFrame(<<" ">>)

----------------------------------------------------------------------------
(* The talking animation (SpecAnimation) *)

\* The positions in anim_log of the pushes of frame made for arrival n.
AnimAt(frame, n) ==
    {i \in 1..Len(anim_log) : anim_log[i].frame = frame /\ anim_log[i].n = n}

\* Arrival n is a BotStartedSpeakingFrame with no BotStartedSpeakingFrame
\* before it since the last BotStoppedSpeakingFrame (or since the start).
StartsTalking(n) ==
    /\ anim_in[n].frame = BotStartedSpeakingFrame
    /\ \A m \in 1..(n - 1) :
          anim_in[m].frame = BotStartedSpeakingFrame =>
              \E k \in (m + 1)..(n - 1) : anim_in[k].frame = BotStoppedSpeakingFrame

\* C34: TalkingAnimation pushes the talking animation exactly for the
\* BotStartedSpeakingFrames that arrive while it is not talking, the quiet
\* frame exactly once for every BotStoppedSpeakingFrame, and every frame it
\* receives exactly once, in its direction, after the sprite it caused and
\* before anything pushed for a later frame.
C34_AnimationFollowsSpeech ==
    /\ \A n \in 1..Len(anim_in) :
          /\ Cardinality(AnimAt(talking_frame, n)) = (IF StartsTalking(n) THEN 1 ELSE 0)
          /\ Cardinality(AnimAt(quiet_frame, n)) =
                (IF anim_in[n].frame = BotStoppedSpeakingFrame THEN 1 ELSE 0)
          /\ Cardinality(AnimAt(anim_in[n].frame, n)) = 1
          /\ \A i \in AnimAt(anim_in[n].frame, n) :
                anim_log[i].direction = anim_in[n].direction
    /\ \A i, j \in 1..Len(anim_log) :
          i < j =>
              /\ anim_log[i].n <= anim_log[j].n
              /\ anim_log[i].n = anim_log[j].n => anim_log[j].frame \notin {talking_frame, quiet_frame}
    /\ \A i \in 1..Len(anim_log) :
          anim_log[i].frame \in {talking_frame, quiet_frame, anim_in[anim_log[i].n].frame}

\* Bot started, started again, stopped and started: the second start pushed
\* no animation, the third did.
C34_Witness ==
    /\ Len(anim_in) = 4
    /\ anim_in[1].frame = BotStartedSpeakingFrame
    /\ anim_in[2].frame = BotStartedSpeakingFrame
    /\ anim_in[3].frame = BotStoppedSpeakingFrame
    /\ anim_in[4].frame = BotStartedSpeakingFrame
    /\ AnimAt(talking_frame, 2) = {}
    /\ AnimAt(talking_frame, 4) # {}
    /\ Len(anim_log) = 7

----------------------------------------------------------------------------
InitBase ==
    /\ is_recording = FALSE
    /\ stream_ready = FALSE
    /\ in_stream = "none"
    /\ calls = <<>>
    /\ events = <<>>
    /\ nkeys = 0
    /\ listener = "running"
    /\ watcher = "polling"
    /\ elapsed = 0
    /\ sttOut = <<>>
    /\ toInserter = <<>>
    /\ inserted = <<>>
    /\ nfrags = 0
    /\ buffer = <<>>
    /\ last_user_id = "user"
    /\ last_language = "None"
    /\ pushed = <<>>
    /\ window = <<>>
    /\ flushes = <<>>
    /\ nframes = 0
    /\ others_in = <<>>
    /\ formatted = <<>>
    /\ sink_in = <<>>
    /\ sink_cur = <<>>
    /\ sink_log = <<>>
    /\ sink_n = 0
    /\ is_talking = FALSE
    /\ anim_log = <<>>
    /\ anim_in = <<>>

Init ==
    /\ InitBase
    /\ script = <<>>
    /\ filler_order = FILLER_WORDS

Next ==
    \/ \E key \in Keys : on_press(key)
    \/ \E key \in Keys : on_release(key)
    \/ TransportStart
    \/ WatcherPoll
    \/ \E t \in SttTexts : SttTranscription(t)
    \/ \E o \in LlmOutcomes(create_llm_service) : LlmCleanup(o)
    \/ \E typed \in BOOLEAN : TextInserter(typed)

Spec == Init /\ [][Next]_vars

ServerTranscription(t, u, l) == BufferTranscription(t, u, l) /\ UNCHANGED fmtVars
ServerStopRecording == BufferStopRecording /\ UNCHANGED fmtVars
ServerPassThrough(f, d) == BufferPassThrough(f, d) /\ UNCHANGED fmtVars

NextServer ==
    \/ \E t \in FragTexts, u \in UserIds, l \in Languages : ServerTranscription(t, u, l)
    \/ ServerStopRecording
    \/ \E f \in OtherFrames, d \in Directions : ServerPassThrough(f, d)

SpecServer == Init /\ [][NextServer]_vars

\* The controller from start to shutdown, with a capture device that may
\* disappear.
NextLifecycle ==
    \/ \E key \in Keys : on_press(key)
    \/ \E key \in Keys : on_release(key)
    \/ TransportStart
    \/ WatcherPoll
    \/ StreamDies
    \/ stop_listening
    \/ ListenerExit

SpecLifecycle == Init /\ [][NextLifecycle]_vars

\* The asyncio loop runs the watcher task whenever it can run, and the
\* pipeline runner starts the transport; key events and the end of the
\* program are the user's.
SpecLifecycleLive ==
    SpecLifecycle /\ WF_vars(WatcherPoll) /\ WF_vars(TransportStart)

\* The DictationController as an object: its handlers and mark_stream_ready
\* called in any order, on a transport whose stream may have started.
NextController ==
    \/ \E key \in Keys : on_press(key)
    \/ \E key \in Keys : on_release(key)
    \/ TransportStart
    \/ MarkStreamReadyCall

SpecController == Init /\ [][NextController]_vars

\* The listener thread and the watcher task, interleaved statement by
\* statement.
NextThreads ==
    \/ \E key \in Keys : ThreadPress(key)
    \/ \E key \in Keys : ThreadRelease(key)
    \/ ListenerStep
    \/ TransportStart
    \/ WatcherMark
    \/ WatcherStep

SpecThreads == Init /\ [][NextThreads]_vars

\* The cleanup stage on its own, built as its constructor declares, with a
\* CerebrasLLMService: the transport starts, the STT service produces
\* TranscriptionFrames, the processor cleans them, the inserter types them.
NextCleanup ==
    \/ TransportStart
    \/ \E t \in SttTexts : SttTranscription(t)
    \/ \E o \in LlmOutcomes("service") : LlmCleanup(o)
    \/ \E typed \in BOOLEAN : TextInserter(typed)

SpecCleanup == Init /\ [][NextCleanup]_vars

NextSink ==
    \/ \E f \in SinkFrames : SinkArrive(f)
    \/ SinkProcessFrame
    \/ SinkSubmit
    \/ \E ok \in BOOLEAN : SinkType(ok)
    \/ SinkPush

SpecSink == Init /\ [][NextSink]_vars

NextAnimation ==
    \E f \in AnimFrames, d \in Directions : AnimationProcessFrame(f, d)

SpecAnimation == Init /\ [][NextAnimation]_vars

InitRules ==
    /\ InitBase
    /\ script \in FragScripts
    /\ filler_order \in FillerOrders

NextRules ==
    \/ RulesFragment
    \/ RulesStop
    \/ AutoFormatterFrame

SpecRules == InitRules /\ [][NextRules]_vars

====
